---- MODULE Spec2Model ----
(***************************************************************************)
(* The send-side emission core of src/endpoint/daten_meister/emit_frame.rs *)
(* (DataFrameEmitter and FrameEmitter) as a state machine.                 *)
(*                                                                         *)
(* emit_data_frames is modelled loop iteration by loop iteration (pc is    *)
(* the position of the call: "resend" is the while loop of lines 170-197,  *)
(* "pending" the loop of lines 199-239); emit_ack_frames and               *)
(* emit_sync_frame are single steps.  The collaborators whose code is not  *)
(* part of emit_frame.rs (packet sender, the queues, the frame queue) are  *)
(* modelled from their documented contracts.                               *)
(***************************************************************************)
EXTENDS Integers, Sequences, FiniteSets, TLC

\* ------------------------------------------------------------ constants
\* Program constants.  The wire sizes are scaled down (bytes -> units); the
\* relations between them are those of the crate.
MAX_SEND_COUNT == 2
MAX_FRAME_SIZE == 3
DATA_FRAME_OVERHEAD == 1
ACK_FRAME_OVERHEAD == 1
SYNC_FRAME_SIZE == 2
MAX_FRAME_WINDOW_SIZE == 2
MAX_PACKET_WINDOW_SIZE == 2

\* --------------------------------------------------------------- bounds
MaxPackets == 2
MaxFragments == 2
MaxCalls == 2
MaxEvents == 2
MaxRtt == 1
MaxSendSize == 5
MaxAcks == 3
MaxControlCalls == 2
MaxBaseId == 1
MaxTimedNow == 23
MaxTimedRtt == 2
MaxBackoffNow == 8
MaxBackoffCalls == 4

\* The largest encoded datagram: with the frame header it fills a frame
\* exactly (tests::max_frame_size).
MaxEncodedSize == MAX_FRAME_SIZE - DATA_FRAME_OVERHEAD
\* The largest encoded frame-ack descriptor: one always fits an ack frame.
MaxAckEncodedSize == MAX_FRAME_SIZE - ACK_FRAME_OVERHEAD

SendModes == {"Unreliable", "Resend", "TimeSensitive"}

VARIABLES
    packets,          \* pending packet store: packets[seq + 1], by sequence id
    packet_sender,    \* [queue, base_id, next_id]
    pending_queue,    \* Seq of [pkt, frag, resend]
    resend_queue,     \* Seq of [pkt, frag, resend_time, send_count], by resend_time
    frame_queue,      \* [base_id, next_id, slots, rate_limited]
    frame_ack_queue,  \* Seq of [id, size]
    flush_id,         \* the endpoint's flush counter
    now,              \* the caller's clock
    pc,               \* "idle" | "resend" | "pending" | "done"
    call,             \* the arguments of the call in progress / just returned
    dfe,              \* DataFrameEmitter: [bytes_remaining, in_progress_frame]
    emitted,          \* the frames handed to the callback by this call, in order
    ret,              \* the value returned by the call
    result,           \* how the call ended: "none" | "Ok" | "SizeLimited" | "WindowLimited"
    err_phase,        \* the phase in which a push failed ("none" if none did)
    due0,             \* fragments due for retransmission when the call started
    popped,           \* frame-acks popped by the emit_ack_frames call
    sent_ids,         \* session log: sequence ids of the data frames emitted
    budget            \* what the run may still do:
                      \*   [pkts, acks, calls, control, events]

vars == <<packets, packet_sender, pending_queue, resend_queue, frame_queue,
          frame_ack_queue, flush_id, now, pc, call, dfe, emitted, ret, result,
          err_phase, due0, popped, sent_ids, budget>>

queues == <<packets, packet_sender, pending_queue, resend_queue, frame_queue,
            frame_ack_queue>>

\* ------------------------------------------------------ pending packets
NoFrame == [kind |-> "none"]
NoCall == [op |-> "none"]

Upgrade(p) == packets[p + 1].live
FragmentAcknowledged(p, f) == f \in packets[p + 1].acked
LastFragmentId(pkt) == pkt.nfrags - 1
\* DataFrameBuilder::encoded_size_ref(&datagram)
EncodedSize(p) == packets[p + 1].fsize

\* ---------------------------------------------------------- frame queue
CanPush(fq) == fq.next_id - fq.base_id < MAX_FRAME_WINDOW_SIZE
NextId(fq) == fq.next_id
MarkRateLimited(fq) == [fq EXCEPT !.rate_limited = TRUE]
FqPush(fq, size, now_ms, refs, nonce) ==
    [fq EXCEPT !.slots = Append(@, [frame_id |-> fq.next_id, size |-> size,
                                    sent |-> now_ms, refs |-> refs,
                                    nonce |-> nonce, acked |-> FALSE]),
               !.next_id = @ + 1]

\* --------------------------------------------------------- resend queue
RECURSIVE RqInsert(_, _)
RqInsert(q, e) ==
    IF q = <<>> THEN <<e>>
    ELSE IF Head(q).resend_time <= e.resend_time
         THEN <<Head(q)>> \o RqInsert(Tail(q), e)
         ELSE <<e>> \o q
RqPush(q, e) == RqInsert(q, e)
RqPop(q) == IF q = <<>> THEN q ELSE Tail(q)

\* ---------------------------------------------------- DataFrameEmitter
\* A context is the state a push or a flush works on:
\*   [dfe: the emitter, fq: the frame queue, emitted: the callback's log].
Ctx == [dfe |-> dfe, fq |-> frame_queue, emitted |-> emitted]

NewDfe(max_send_size) ==
    [bytes_remaining |-> max_send_size, in_progress_frame |-> NoFrame]

\* Flush as it would be if the frame were handed to the callback without
\* being registered with the frame queue.
FlushUnregistered(c) ==
    IF c.dfe.in_progress_frame = NoFrame THEN c
    ELSE LET fr == c.dfe.in_progress_frame
             frame_data == [kind |-> "data", sequence_id |-> fr.frame_id,
                            nonce |-> fr.nonce, datagrams |-> fr.datagrams,
                            len |-> fr.size]
         IN  [dfe |-> [c.dfe EXCEPT !.in_progress_frame = NoFrame,
                                    !.bytes_remaining = @ - fr.size],
              fq |-> c.fq,
              emitted |-> Append(c.emitted, frame_data)]

\* Flush as it would be if the frame were registered without its fragment
\* references.
FlushWithoutRefs(c) ==
    IF c.dfe.in_progress_frame = NoFrame THEN c
    ELSE LET fr == c.dfe.in_progress_frame
             frame_data == [kind |-> "data", sequence_id |-> fr.frame_id,
                            nonce |-> fr.nonce, datagrams |-> fr.datagrams,
                            len |-> fr.size]
         IN  [dfe |-> [c.dfe EXCEPT !.in_progress_frame = NoFrame,
                                    !.bytes_remaining = @ - fr.size],
              fq |-> FqPush(c.fq, fr.size, call.now_ms, <<>>, fr.nonce),
              emitted |-> Append(c.emitted, frame_data)]

Flush(c) ==
    IF c.dfe.in_progress_frame = NoFrame THEN c
    ELSE LET fr == c.dfe.in_progress_frame
             frame_data == [kind |-> "data", sequence_id |-> fr.frame_id,
                            nonce |-> fr.nonce, datagrams |-> fr.datagrams,
                            len |-> fr.size]
         IN  [dfe |-> [c.dfe EXCEPT !.in_progress_frame = NoFrame,
                                    !.bytes_remaining = @ - fr.size],
              fq |-> FqPush(c.fq, fr.size, call.now_ms, fr.fragment_refs, fr.nonce),
              emitted |-> Append(c.emitted, frame_data)]

\* dg = [pkt, frag, from]; "from" records the queue the datagram was taken from.
FragmentRef(dg) == [pkt |-> dg.pkt, frag |-> dg.frag]

\* PushInitial as it would be if the budget were compared with the datagram
\* alone, the frame header forgotten.
PushInitialNoOverhead(c, dg, persistent, nonce) ==
    IF ~CanPush(c.fq) THEN [res |-> "WindowLimited", c |-> c]
    ELSE LET potential_frame_size == DATA_FRAME_OVERHEAD + EncodedSize(dg.pkt)
         IN  IF EncodedSize(dg.pkt) > c.dfe.bytes_remaining
             THEN [res |-> "SizeLimited",
                   c |-> [c EXCEPT !.fq = MarkRateLimited(c.fq)]]
             ELSE [res |-> "Ok",
                   c |-> [c EXCEPT !.dfe.in_progress_frame =
                            [kind |-> "data", frame_id |-> NextId(c.fq),
                             nonce |-> nonce, size |-> potential_frame_size,
                             datagrams |-> <<dg>>,
                             fragment_refs |-> IF persistent
                                               THEN <<[pkt |-> dg.pkt, frag |-> dg.frag]>>
                                               ELSE <<>>]]]

\* PushInitial as it would be if a full frame window were reported to the
\* frame queue as rate limiting too.
PushInitialMarksWindow(c, dg, persistent, nonce) ==
    IF ~CanPush(c.fq)
    THEN [res |-> "WindowLimited", c |-> [c EXCEPT !.fq = MarkRateLimited(c.fq)]]
    ELSE LET potential_frame_size == DATA_FRAME_OVERHEAD + EncodedSize(dg.pkt)
         IN  IF potential_frame_size > c.dfe.bytes_remaining
             THEN [res |-> "SizeLimited",
                   c |-> [c EXCEPT !.fq = MarkRateLimited(c.fq)]]
             ELSE [res |-> "Ok",
                   c |-> [c EXCEPT !.dfe.in_progress_frame =
                            [kind |-> "data", frame_id |-> NextId(c.fq),
                             nonce |-> nonce, size |-> potential_frame_size,
                             datagrams |-> <<dg>>,
                             fragment_refs |-> IF persistent
                                               THEN <<[pkt |-> dg.pkt, frag |-> dg.frag]>>
                                               ELSE <<>>]]]

\* PushInitial as it would be without the can_push test.
PushInitialNoWindow(c, dg, persistent, nonce) ==
    LET potential_frame_size == DATA_FRAME_OVERHEAD + EncodedSize(dg.pkt)
    IN  IF potential_frame_size > c.dfe.bytes_remaining
        THEN [res |-> "SizeLimited",
              c |-> [c EXCEPT !.fq = MarkRateLimited(c.fq)]]
        ELSE [res |-> "Ok",
              c |-> [c EXCEPT !.dfe.in_progress_frame =
                       [kind |-> "data", frame_id |-> NextId(c.fq),
                        nonce |-> nonce, size |-> potential_frame_size,
                        datagrams |-> <<dg>>,
                        fragment_refs |-> IF persistent
                                          THEN <<[pkt |-> dg.pkt, frag |-> dg.frag]>>
                                          ELSE <<>>]]]

PushInitial(c, dg, persistent, nonce) ==
    IF ~CanPush(c.fq) THEN [res |-> "WindowLimited", c |-> c]
    ELSE LET potential_frame_size == DATA_FRAME_OVERHEAD + EncodedSize(dg.pkt)
         IN  IF potential_frame_size > c.dfe.bytes_remaining
             THEN [res |-> "SizeLimited",
                   c |-> [c EXCEPT !.fq = MarkRateLimited(c.fq)]]
             ELSE [res |-> "Ok",
                   c |-> [c EXCEPT !.dfe.in_progress_frame =
                            [kind |-> "data", frame_id |-> NextId(c.fq),
                             nonce |-> nonce, size |-> potential_frame_size,
                             datagrams |-> <<dg>>,
                             fragment_refs |-> IF persistent
                                               THEN <<FragmentRef(dg)>>
                                               ELSE <<>>]]]

\* Push as it would be if a full frame were never closed: the datagram is
\* appended whenever the budget allows.
PushNoSplit(c, dg, persistent, nonce) ==
    IF c.dfe.in_progress_frame # NoFrame
    THEN LET next_frame == c.dfe.in_progress_frame
             potential_frame_size == next_frame.size + EncodedSize(dg.pkt)
         IN  IF potential_frame_size > c.dfe.bytes_remaining
             THEN [res |-> "SizeLimited",
                   c |-> [Flush(c) EXCEPT !.fq = MarkRateLimited(Flush(c).fq)]]
             ELSE [res |-> "Ok",
                   c |-> [c EXCEPT !.dfe.in_progress_frame =
                            [next_frame EXCEPT
                               !.size = potential_frame_size,
                               !.datagrams = Append(@, dg),
                               !.fragment_refs = IF persistent
                                                 THEN Append(@, FragmentRef(dg))
                                                 ELSE @]]]
    ELSE PushInitial(c, dg, persistent, nonce)

\* Push as it would be if the frame in progress were not flushed when the
\* budget is exhausted.
PushNoFlushOnLimit(c, dg, persistent, nonce) ==
    IF c.dfe.in_progress_frame # NoFrame
    THEN LET next_frame == c.dfe.in_progress_frame
             potential_frame_size == next_frame.size + EncodedSize(dg.pkt)
         IN  IF potential_frame_size > MAX_FRAME_SIZE
             THEN PushInitial(Flush(c), dg, persistent, nonce)
             ELSE IF potential_frame_size > c.dfe.bytes_remaining
             THEN [res |-> "SizeLimited",
                   c |-> [c EXCEPT !.fq = MarkRateLimited(c.fq)]]
             ELSE [res |-> "Ok",
                   c |-> [c EXCEPT !.dfe.in_progress_frame =
                            [next_frame EXCEPT
                               !.size = potential_frame_size,
                               !.datagrams = Append(@, dg),
                               !.fragment_refs = IF persistent
                                                 THEN Append(@, FragmentRef(dg))
                                                 ELSE @]]]
    ELSE PushInitial(c, dg, persistent, nonce)

Push(c, dg, persistent, nonce) ==
    IF c.dfe.in_progress_frame # NoFrame
    THEN LET next_frame == c.dfe.in_progress_frame
             potential_frame_size == next_frame.size + EncodedSize(dg.pkt)
         IN  IF potential_frame_size > MAX_FRAME_SIZE
             THEN PushInitial(Flush(c), dg, persistent, nonce)
             ELSE IF potential_frame_size > c.dfe.bytes_remaining
             THEN [res |-> "SizeLimited",
                   c |-> [Flush(c) EXCEPT !.fq = MarkRateLimited(Flush(c).fq)]]
             ELSE [res |-> "Ok",
                   c |-> [c EXCEPT !.dfe.in_progress_frame =
                            [next_frame EXCEPT
                               !.size = potential_frame_size,
                               !.datagrams = Append(@, dg),
                               !.fragment_refs = IF persistent
                                                 THEN Append(@, FragmentRef(dg))
                                                 ELSE @]]]
    ELSE PushInitial(c, dg, persistent, nonce)

TotalSize(c) == call.max_send_size - c.dfe.bytes_remaining

\* ------------------------------------------------------- packet sender
RECURSIVE DropStale(_, _)
DropStale(q, fid) ==
    IF q # <<>> /\ Head(q).mode = "TimeSensitive" /\ Head(q).flush_id # fid
    THEN DropStale(Tail(q), fid)
    ELSE q

\* emit_packet(flush_id): the next admissible packet, or none.
EmitPacket(ps, fid) ==
    LET q == DropStale(ps.queue, fid)
    IN  IF q = <<>> \/ ps.next_id - ps.base_id >= MAX_PACKET_WINDOW_SIZE
        THEN [some |-> FALSE, ps |-> [ps EXCEPT !.queue = q]]
        ELSE [some |-> TRUE,
              ps |-> [ps EXCEPT !.queue = Tail(q), !.next_id = @ + 1],
              packet |-> [nfrags |-> Head(q).nfrags, fsize |-> Head(q).fsize,
                          mode |-> Head(q).mode, flush_id |-> Head(q).flush_id,
                          live |-> TRUE, acked |-> {}],
              resend |-> Head(q).mode = "Resend"]

\* ---------------------------------------------------------------- Init
InitQueues ==
    /\ packets = <<>>
    /\ packet_sender = [queue |-> <<>>, base_id |-> 0, next_id |-> 0]
    /\ pending_queue = <<>>
    /\ resend_queue = <<>>
    /\ frame_queue = [base_id |-> 0, next_id |-> 0, slots |-> <<>>,
                      rate_limited |-> FALSE]
    /\ frame_ack_queue = <<>>

InitCall ==
    /\ pc = "idle"
    /\ call = NoCall
    /\ dfe = NewDfe(0)
    /\ emitted = <<>>
    /\ ret = 0
    /\ result = "none"
    /\ err_phase = "none"
    /\ due0 = {}
    /\ popped = <<>>

\* The runs explored: a session that sends data, a session that acknowledges
\* the peer's frames, and a short one that does both.  emit_data_frames never
\* touches the frame-ack queue and emit_ack_frames touches nothing else.
Workloads ==
    {[pkts |-> MaxPackets, acks |-> 0, calls |-> MaxCalls, control |-> 0,
      events |-> MaxEvents],
     [pkts |-> 0, acks |-> MaxAcks, calls |-> 0, control |-> MaxControlCalls,
      events |-> 0],
     [pkts |-> 1, acks |-> 1, calls |-> 1, control |-> 1, events |-> 0]}

Init ==
    /\ InitQueues
    /\ InitCall
    /\ flush_id = 0
    /\ now = 0
    /\ sent_ids = <<>>
    /\ budget \in Workloads

\* ------------------------------------------------- between the calls
Idle == pc \in {"idle", "done"}

\* What an operation between two calls leaves of the last call: nothing.
Event ==
    /\ budget.events > 0
    /\ budget' = [budget EXCEPT !.events = @ - 1]

ForgetCall ==
    /\ pc' = "idle"
    /\ call' = NoCall
    /\ dfe' = NewDfe(0)
    /\ emitted' = <<>>
    /\ ret' = 0
    /\ result' = "none"
    /\ err_phase' = "none"
    /\ due0' = {}
    /\ popped' = <<>>

\* PacketSender::enqueue_packet(data, channel, mode, flush_id)
EnqueuePacket(nfrags, fsize, mode) ==
    /\ Idle
    /\ budget.pkts > 0
    /\ budget' = [budget EXCEPT !.pkts = @ - 1]
    /\ packet_sender' = [packet_sender EXCEPT !.queue =
            Append(@, [nfrags |-> nfrags, fsize |-> fsize, mode |-> mode,
                       flush_id |-> IF mode = "TimeSensitive" THEN flush_id ELSE 0])]
    /\ ForgetCall
    /\ UNCHANGED <<packets, pending_queue, resend_queue, frame_queue,
                   frame_ack_queue, flush_id, now, sent_ids>>

\* PacketSender::acknowledge(n): the packet window advances to n; the packets
\* before n are released, and the weak references to them stop upgrading.
Acknowledge(n) ==
    /\ Idle
    /\ n > packet_sender.base_id
    /\ n <= packet_sender.next_id
    /\ packet_sender' = [packet_sender EXCEPT !.base_id = n]
    /\ packets' = [i \in 1..Len(packets) |->
                     IF i - 1 < n THEN [packets[i] EXCEPT !.live = FALSE]
                     ELSE packets[i]]
    /\ Event
    /\ ForgetCall
    /\ UNCHANGED <<pending_queue, resend_queue, frame_queue, frame_ack_queue,
                   flush_id, now, sent_ids>>

Xor(a, b) == a # b
RECURSIVE NonceOf(_, _)
NonceOf(slots, ids) ==
    IF slots = <<>> THEN FALSE
    ELSE IF Head(slots).frame_id \in ids
         THEN Xor(Head(slots).nonce, NonceOf(Tail(slots), ids))
         ELSE NonceOf(Tail(slots), ids)

RECURSIVE DropAcked(_)
DropAcked(slots) ==
    IF slots # <<>> /\ Head(slots).acked THEN DropAcked(Tail(slots)) ELSE slots

\* The fragments referenced by the slots of the frames `ids`.
AckedRefs(slots, ids) ==
    {r \in UNION {{s.refs[k] : k \in 1..Len(s.refs)} :
                  s \in {slots[i] : i \in 1..Len(slots)}} :
        \E i \in 1..Len(slots) :
            /\ slots[i].frame_id \in ids
            /\ \E k \in 1..Len(slots[i].refs) : slots[i].refs[k] = r}

\* FrameQueue::acknowledge_group({base_id, bitfield, nonce}, rtt): the frames
\* `ids` are acknowledged if the nonce is the xor of theirs; the acknowledgement
\* bit of every fragment they carried is set (if the packet is still there).
AcknowledgeGroup(ids, nonce) ==
    /\ Idle
    /\ ids # {}
    /\ LET slots == frame_queue.slots
           ok == nonce = NonceOf(slots, ids)
           refs == AckedRefs(slots, ids)
           marked == [i \in 1..Len(slots) |->
                        IF slots[i].frame_id \in ids
                        THEN [slots[i] EXCEPT !.acked = TRUE] ELSE slots[i]]
           kept == DropAcked(marked)
       IN  /\ ids \subseteq {slots[i].frame_id : i \in {j \in 1..Len(slots) :
                                                         ~slots[j].acked}}
           /\ frame_queue' =
                IF ok
                THEN [frame_queue EXCEPT
                        !.slots = kept,
                        !.base_id = @ + (Len(slots) - Len(kept))]
                ELSE frame_queue
           /\ packets' =
                IF ok
                THEN [i \in 1..Len(packets) |->
                        IF packets[i].live
                        THEN [packets[i] EXCEPT !.acked =
                                @ \cup {r.frag : r \in {x \in refs : x.pkt = i - 1}}]
                        ELSE packets[i]]
                ELSE packets
    /\ Event
    /\ ForgetCall
    /\ UNCHANGED <<packet_sender, pending_queue, resend_queue, frame_ack_queue,
                   flush_id, now, sent_ids>>

\* The oldest frame falls out of the frame window unacknowledged.
EvictFrame ==
    /\ Idle
    /\ frame_queue.slots # <<>>
    /\ frame_queue' = [frame_queue EXCEPT
                         !.slots = DropAcked(Tail(@)),
                         !.base_id = @ + (Len(frame_queue.slots)
                                          - Len(DropAcked(Tail(frame_queue.slots))))]
    /\ Event
    /\ ForgetCall
    /\ UNCHANGED <<packets, packet_sender, pending_queue, resend_queue,
                   frame_ack_queue, flush_id, now, sent_ids>>

\* The caller's clock advances.
Tick ==
    /\ Idle
    /\ now' = now + 1
    /\ Event
    /\ ForgetCall
    /\ UNCHANGED <<queues, flush_id, sent_ids>>

\* The endpoint starts its next flush.
NextFlush ==
    /\ Idle
    /\ flush_id' = flush_id + 1
    /\ Event
    /\ ForgetCall
    /\ UNCHANGED <<queues, now, sent_ids>>

\* ------------------------------------------------- emit_data_frames
ApplyCtx(c) ==
    /\ dfe' = c.dfe
    /\ frame_queue' = c.fq
    /\ emitted' = c.emitted
    /\ sent_ids' = sent_ids \o
          [i \in 1..(Len(c.emitted) - Len(emitted)) |->
              c.emitted[Len(emitted) + i].sequence_id]

\* Return as it would be if a failed push in the resend phase only left the
\* resend loop (break) instead of returning.
ReturnFallThrough(c, res, phase) ==
    /\ pc' = IF phase = "resend" THEN "pending" ELSE "done"
    /\ ret' = TotalSize(c)
    /\ result' = res
    /\ err_phase' = phase

\* return dfe.total_size()
Return(c, res, phase) ==
    /\ pc' = "done"
    /\ ret' = TotalSize(c)
    /\ result' = res
    /\ err_phase' = phase

Continue(next_pc) ==
    /\ pc' = next_pc
    /\ UNCHANGED <<ret, result, err_phase>>

\* The fragments whose retransmission is due at now_ms.
Due(now_ms) ==
    {[pkt |-> e.pkt, frag |-> e.frag] :
        e \in {resend_queue[i] : i \in {j \in 1..Len(resend_queue) :
                  /\ Upgrade(resend_queue[j].pkt)
                  /\ ~FragmentAcknowledged(resend_queue[j].pkt, resend_queue[j].frag)
                  /\ resend_queue[j].resend_time <= now_ms}}}

EmitDataFrames(now_ms, rtt_ms, max_send_size) ==
    /\ Idle
    /\ budget.calls > 0
    /\ budget' = [budget EXCEPT !.calls = @ - 1]
    /\ pc' = "resend"
    /\ call' = [op |-> "data", now_ms |-> now_ms, rtt_ms |-> rtt_ms,
                max_send_size |-> max_send_size, flush_id |-> flush_id,
                rate_limited0 |-> frame_queue.rate_limited]
    /\ dfe' = NewDfe(max_send_size)
    /\ emitted' = <<>>
    /\ ret' = 0
    /\ result' = "none"
    /\ err_phase' = "none"
    /\ due0' = Due(now_ms)
    /\ popped' = <<>>
    /\ UNCHANGED <<queues, flush_id, now, sent_ids>>

InResend == pc = "resend" /\ resend_queue # <<>>
ResendHead == Head(resend_queue)
ResendDatagram == [pkt |-> ResendHead.pkt, frag |-> ResendHead.frag, from |-> "resend"]

\* while let Some(entry) = self.resend_queue.peek(): none left
ResendEmpty ==
    /\ pc = "resend"
    /\ resend_queue = <<>>
    /\ Continue("pending")
    /\ UNCHANGED <<queues, flush_id, now, call, dfe, emitted, due0, popped,
                   sent_ids, budget>>

\* ResendPopDead as it would be if the head were popped without the upgrade
\* test.
ResendPopUnchecked ==
    /\ InResend
    /\ resend_queue' = RqPop(resend_queue)
    /\ Continue("resend")
    /\ UNCHANGED <<packets, packet_sender, pending_queue, frame_queue,
                   frame_ack_queue, flush_id, now, call, dfe, emitted, due0,
                   popped, sent_ids, budget>>

\* the weak reference does not upgrade: pop, continue
ResendPopDead ==
    /\ InResend
    /\ ~Upgrade(ResendHead.pkt)
    /\ resend_queue' = RqPop(resend_queue)
    /\ Continue("resend")
    /\ UNCHANGED <<packets, packet_sender, pending_queue, frame_queue,
                   frame_ack_queue, flush_id, now, call, dfe, emitted, due0,
                   popped, sent_ids, budget>>

\* the fragment is acknowledged: pop, continue
ResendPopAcked ==
    /\ InResend
    /\ Upgrade(ResendHead.pkt)
    /\ FragmentAcknowledged(ResendHead.pkt, ResendHead.frag)
    /\ resend_queue' = RqPop(resend_queue)
    /\ Continue("resend")
    /\ UNCHANGED <<packets, packet_sender, pending_queue, frame_queue,
                   frame_ack_queue, flush_id, now, call, dfe, emitted, due0,
                   popped, sent_ids, budget>>

\* ResendLive as it would be without the fragment_acknowledged test.
ResendLiveAckUnchecked ==
    /\ InResend
    /\ Upgrade(ResendHead.pkt)

ResendLive ==
    /\ InResend
    /\ Upgrade(ResendHead.pkt)
    /\ ~FragmentAcknowledged(ResendHead.pkt, ResendHead.frag)

\* entry.resend_time > now_ms: break
ResendNotDue ==
    /\ ResendLive
    /\ ResendHead.resend_time > call.now_ms
    /\ Continue("pending")
    /\ UNCHANGED <<queues, flush_id, now, call, dfe, emitted, due0, popped,
                   sent_ids, budget>>

ResendDue == ResendLive /\ ~(ResendHead.resend_time > call.now_ms)

\* dfe.push(..., true) fails: return dfe.total_size()
ResendPushErr ==
    /\ ResendDue
    /\ \E nonce \in BOOLEAN :
         LET r == Push(Ctx, ResendDatagram, TRUE, nonce)
         IN  /\ r.res # "Ok"
             /\ ApplyCtx(r.c)
             /\ Return(r.c, r.res, "resend")
    /\ UNCHANGED <<packets, packet_sender, pending_queue, resend_queue,
                   frame_ack_queue, flush_id, now, call, due0, popped, budget>>

Min(a, b) == IF a < b THEN a ELSE b

\* Rescheduled as it would be if send_count were not capped.
RescheduledUncapped(entry, now_ms, rtt_ms) ==
    [entry EXCEPT !.resend_time = now_ms + rtt_ms * (2 ^ entry.send_count),
                  !.send_count = entry.send_count + 1]

\* Rescheduled as it would be if the delay were counted from the time the
\* resend had been scheduled for.
RescheduledFromSchedule(entry, now_ms, rtt_ms) ==
    [entry EXCEPT !.resend_time = entry.resend_time + rtt_ms * (2 ^ entry.send_count),
                  !.send_count = Min(entry.send_count + 1, MAX_SEND_COUNT)]

\* The entry that replaces a resend entry sent at now_ms.
Rescheduled(entry, now_ms, rtt_ms) ==
    [entry EXCEPT !.resend_time = now_ms + rtt_ms * (2 ^ entry.send_count),
                  !.send_count = Min(entry.send_count + 1, MAX_SEND_COUNT)]

\* ResendPushOk as it would be if a resent entry were not scheduled again.
ResendPushOkDropsEntry ==
    /\ ResendDue
    /\ \E nonce \in BOOLEAN :
         LET r == Push(Ctx, ResendDatagram, TRUE, nonce)
         IN  /\ r.res = "Ok"
             /\ ApplyCtx(r.c)
    /\ resend_queue' = RqPop(resend_queue)
    /\ Continue("resend")
    /\ UNCHANGED <<packets, packet_sender, pending_queue, frame_ack_queue,
                   flush_id, now, call, due0, popped, budget>>

\* dfe.push(..., true) succeeds: pop the entry and schedule the next resend
ResendPushOk ==
    /\ ResendDue
    /\ \E nonce \in BOOLEAN :
         LET r == Push(Ctx, ResendDatagram, TRUE, nonce)
         IN  /\ r.res = "Ok"
             /\ ApplyCtx(r.c)
    /\ resend_queue' = RqPush(RqPop(resend_queue),
                              Rescheduled(ResendHead, call.now_ms, call.rtt_ms))
    /\ Continue("resend")
    /\ UNCHANGED <<packets, packet_sender, pending_queue, frame_ack_queue,
                   flush_id, now, call, due0, popped, budget>>

\* The flush id handed to the packet sender: self.flush_id.
RefillFlushId == call.flush_id

\* PendingRefill as it would be if the fragments were appended last first.
PendingRefillDescending ==
    /\ pc = "pending"
    /\ pending_queue = <<>>
    /\ LET e == EmitPacket(packet_sender, RefillFlushId)
       IN  /\ e.some
           /\ packet_sender' = e.ps
           /\ packets' = Append(packets, e.packet)
           /\ pending_queue' =
                [i \in 1..(LastFragmentId(e.packet) + 1) |->
                    [pkt |-> Len(packets),
                     frag |-> LastFragmentId(e.packet) + 1 - i,
                     resend |-> e.resend]]
    /\ Continue("pending")
    /\ UNCHANGED <<resend_queue, frame_queue, frame_ack_queue, flush_id, now,
                   call, dfe, emitted, due0, popped, sent_ids, budget>>

\* the pending queue is empty and the packet sender has a packet: its
\* fragments are appended in fragment order
PendingRefill ==
    /\ pc = "pending"
    /\ pending_queue = <<>>
    /\ LET e == EmitPacket(packet_sender, RefillFlushId)
       IN  /\ e.some
           /\ packet_sender' = e.ps
           /\ packets' = Append(packets, e.packet)
           /\ pending_queue' =
                [i \in 1..(LastFragmentId(e.packet) + 1) |->
                    [pkt |-> Len(packets), frag |-> i - 1, resend |-> e.resend]]
    /\ Continue("pending")
    /\ UNCHANGED <<resend_queue, frame_queue, frame_ack_queue, flush_id, now,
                   call, dfe, emitted, due0, popped, sent_ids, budget>>

\* the pending queue is empty and the packet sender has nothing: break,
\* dfe.flush(), return dfe.total_size()
PendingDrained ==
    /\ pc = "pending"
    /\ pending_queue = <<>>
    /\ LET e == EmitPacket(packet_sender, RefillFlushId)
       IN  /\ ~e.some
           /\ packet_sender' = e.ps
    /\ ApplyCtx(Flush(Ctx))
    /\ Return(Flush(Ctx), "Ok", "none")
    /\ UNCHANGED <<packets, pending_queue, resend_queue, frame_ack_queue,
                   flush_id, now, call, due0, popped, budget>>

InPending == pc = "pending" /\ pending_queue # <<>>
PendingHead == Head(pending_queue)
PendingDatagram == [pkt |-> PendingHead.pkt, frag |-> PendingHead.frag, from |-> "pending"]
PendingLive ==
    /\ InPending
    /\ Upgrade(PendingHead.pkt)
    /\ ~FragmentAcknowledged(PendingHead.pkt, PendingHead.frag)

\* the head of the pending queue is dead or acknowledged:
\* self.resend_queue.pop(); continue
PendingSkip ==
    /\ InPending
    /\ ~PendingLive
    /\ resend_queue' = RqPop(resend_queue)
    /\ Continue("pending")
    /\ UNCHANGED <<packets, packet_sender, pending_queue, frame_queue,
                   frame_ack_queue, flush_id, now, call, dfe, emitted, due0,
                   popped, sent_ids, budget>>

\* PendingPushErr as it would be if the entry that could not be packed were
\* popped before the return.
PendingPushErrPops ==
    /\ PendingLive
    /\ \E nonce \in BOOLEAN :
         LET r == Push(Ctx, PendingDatagram, PendingHead.resend, nonce)
         IN  /\ r.res # "Ok"
             /\ ApplyCtx(r.c)
             /\ Return(r.c, r.res, "pending")
    /\ pending_queue' = Tail(pending_queue)
    /\ UNCHANGED <<packets, packet_sender, resend_queue,
                   frame_ack_queue, flush_id, now, call, due0, popped, budget>>

\* dfe.push(..., entry.resend) fails: return dfe.total_size()
PendingPushErr ==
    /\ PendingLive
    /\ \E nonce \in BOOLEAN :
         LET r == Push(Ctx, PendingDatagram, PendingHead.resend, nonce)
         IN  /\ r.res # "Ok"
             /\ ApplyCtx(r.c)
             /\ Return(r.c, r.res, "pending")
    /\ UNCHANGED <<packets, packet_sender, pending_queue, resend_queue,
                   frame_ack_queue, flush_id, now, call, due0, popped, budget>>

\* The resend entry of a fragment first sent at now_ms.
FirstResend(entry, now_ms, rtt_ms) ==
    [pkt |-> entry.pkt, frag |-> entry.frag,
     resend_time |-> now_ms + rtt_ms, send_count |-> 1]

\* PendingPushOk as it would be if a resend were scheduled whatever the
\* entry's resend flag.
PendingPushOkAlwaysResend ==
    /\ PendingLive
    /\ \E nonce \in BOOLEAN :
         LET r == Push(Ctx, PendingDatagram, PendingHead.resend, nonce)
         IN  /\ r.res = "Ok"
             /\ ApplyCtx(r.c)
    /\ pending_queue' = Tail(pending_queue)
    /\ resend_queue' =
         RqPush(resend_queue, FirstResend(PendingHead, call.now_ms, call.rtt_ms))
    /\ Continue("pending")
    /\ UNCHANGED <<packets, packet_sender, frame_ack_queue, flush_id, now,
                   call, due0, popped, budget>>

\* dfe.push(..., entry.resend) succeeds: pop_front; schedule a resend if asked
PendingPushOk ==
    /\ PendingLive
    /\ \E nonce \in BOOLEAN :
         LET r == Push(Ctx, PendingDatagram, PendingHead.resend, nonce)
         IN  /\ r.res = "Ok"
             /\ ApplyCtx(r.c)
    /\ pending_queue' = Tail(pending_queue)
    /\ resend_queue' =
         IF PendingHead.resend
         THEN RqPush(resend_queue, FirstResend(PendingHead, call.now_ms, call.rtt_ms))
         ELSE resend_queue
    /\ Continue("pending")
    /\ UNCHANGED <<packets, packet_sender, frame_ack_queue, flush_id, now,
                   call, due0, popped, budget>>

FlushStep ==
    \/ ResendEmpty \/ ResendPopDead \/ ResendPopAcked \/ ResendNotDue
    \/ ResendPushErr \/ ResendPushOk
    \/ PendingRefill \/ PendingDrained \/ PendingSkip
    \/ PendingPushErr \/ PendingPushOk

\* -------------------------------------------------- emit_ack_frames
\* FrameAckQueue: a frame of the peer is to be acknowledged.  The descriptors
\* of a run have distinct ids.
ReceiveFrame(size) ==
    /\ Idle
    /\ budget.acks > 0
    /\ budget' = [budget EXCEPT !.acks = @ - 1]
    /\ frame_ack_queue' = Append(frame_ack_queue,
                                 [id |-> budget.acks, size |-> size])
    /\ ForgetCall
    /\ UNCHANGED <<packets, packet_sender, pending_queue, resend_queue,
                   frame_queue, flush_id, now, sent_ids>>

RECURSIVE SumSizes(_)
SumSizes(acks) == IF acks = <<>> THEN 0 ELSE Head(acks).size + SumSizes(Tail(acks))

\* AckFrameBuilder: size(), count(), build()
AckBuilderSize(fbuilder) == ACK_FRAME_OVERHEAD + SumSizes(fbuilder)
AckBuild(a) ==
    [kind |-> "ack", frame_window_base_id |-> a.frame_window_base_id,
     packet_window_base_id |-> a.packet_window_base_id,
     frame_acks |-> a.fbuilder, len |-> AckBuilderSize(a.fbuilder)]

\* AckEmitLast as it would be without min_one.
AckEmitLastIfAny(a) ==
    IF Len(a.fbuilder) > 0
    THEN [a EXCEPT !.bytes_remaining = @ - AckBuild(a).len,
                   !.emitted = Append(@, AckBuild(a))]
    ELSE a

\* if fbuilder.count() > 0 || min_one && !frame_sent { build, emit }
AckEmitLast(a) ==
    IF Len(a.fbuilder) > 0 \/ (a.min_one /\ ~a.frame_sent)
    THEN [a EXCEPT !.bytes_remaining = @ - AckBuild(a).len,
                   !.emitted = Append(@, AckBuild(a))]
    ELSE a

\* AckStep as it would be if the frame-ack were popped before the budget test.
AckStepPopsFirst(a) ==
    IF a.queue = <<>>
    THEN [AckEmitLast(a) EXCEPT !.returned = TRUE]
    ELSE LET frame_ack == Head(a.queue)
             potential_frame_size == AckBuilderSize(a.fbuilder) + frame_ack.size
         IN  IF potential_frame_size > a.bytes_remaining
             THEN [AckEmitLast(a) EXCEPT !.returned = TRUE, !.queue = Tail(@),
                                         !.popped = Append(@, frame_ack)]
             ELSE IF potential_frame_size > MAX_FRAME_SIZE
             THEN [a EXCEPT !.bytes_remaining = @ - AckBuild(a).len,
                            !.frame_sent = TRUE,
                            !.emitted = Append(@, AckBuild(a)),
                            !.fbuilder = <<>>]
             ELSE [a EXCEPT !.fbuilder = Append(@, frame_ack),
                            !.queue = Tail(@),
                            !.popped = Append(@, frame_ack)]

\* One iteration of the while loop of emit_ack_frames (and what follows it
\* when the queue is empty); a.returned is set when the function returns.
AckStep(a) ==
    IF a.queue = <<>>
    THEN [AckEmitLast(a) EXCEPT !.returned = TRUE]
    ELSE LET frame_ack == Head(a.queue)
             potential_frame_size == AckBuilderSize(a.fbuilder) + frame_ack.size
         IN  IF potential_frame_size > a.bytes_remaining
             THEN [AckEmitLast(a) EXCEPT !.returned = TRUE]
             ELSE IF potential_frame_size > MAX_FRAME_SIZE
             THEN [a EXCEPT !.bytes_remaining = @ - AckBuild(a).len,
                            !.frame_sent = TRUE,
                            !.emitted = Append(@, AckBuild(a)),
                            !.fbuilder = <<>>]
             ELSE [a EXCEPT !.fbuilder = Append(@, frame_ack),
                            !.queue = Tail(@),
                            !.popped = Append(@, frame_ack)]

RECURSIVE AckLoop(_)
AckLoop(a) == IF a.returned THEN a ELSE AckLoop(AckStep(a))

EmitAckFrames(frame_window_base_id, packet_window_base_id, max_send_size, min_one) ==
    /\ Idle
    /\ budget.control > 0
    /\ budget' = [budget EXCEPT !.control = @ - 1]
    /\ LET a0 == [queue |-> frame_ack_queue, fbuilder |-> <<>>,
                  bytes_remaining |-> max_send_size, frame_sent |-> FALSE,
                  emitted |-> <<>>, popped |-> <<>>, returned |-> FALSE,
                  min_one |-> min_one,
                  frame_window_base_id |-> frame_window_base_id,
                  packet_window_base_id |-> packet_window_base_id]
           a == IF AckBuilderSize(<<>>) > max_send_size
                THEN a0
                ELSE AckLoop(a0)
       IN  /\ frame_ack_queue' = a.queue
           /\ emitted' = a.emitted
           /\ popped' = a.popped
           /\ ret' = max_send_size - a.bytes_remaining
    /\ pc' = "done"
    /\ call' = [op |-> "ack", max_send_size |-> max_send_size,
                min_one |-> min_one,
                frame_window_base_id |-> frame_window_base_id,
                packet_window_base_id |-> packet_window_base_id,
                queue0 |-> frame_ack_queue]
    /\ result' = "Ok"
    /\ err_phase' = "none"
    /\ dfe' = NewDfe(0)
    /\ due0' = {}
    /\ UNCHANGED <<packets, packet_sender, pending_queue, resend_queue,
                   frame_queue, flush_id, now, sent_ids>>

\* -------------------------------------------------- emit_sync_frame
OptionalIds == {[some |-> FALSE]} \cup {[some |-> TRUE, id |-> n] : n \in 0..MaxBaseId}

\* EmitSyncFrame as it would be without the test of max_send_size.
EmitSyncFrameUnchecked(next_frame_id, next_packet_id, max_send_size) ==
    /\ Idle
    /\ budget.control > 0
    /\ budget' = [budget EXCEPT !.control = @ - 1]
    /\ emitted' = <<[kind |-> "sync", next_frame_id |-> next_frame_id,
                    next_packet_id |-> next_packet_id,
                    len |-> SYNC_FRAME_SIZE]>>
    /\ ret' = SYNC_FRAME_SIZE
    /\ pc' = "done"
    /\ call' = [op |-> "sync", max_send_size |-> max_send_size,
                next_frame_id |-> next_frame_id,
                next_packet_id |-> next_packet_id]
    /\ result' = "Ok"
    /\ err_phase' = "none"
    /\ dfe' = NewDfe(0)
    /\ due0' = {}
    /\ popped' = <<>>
    /\ UNCHANGED <<queues, flush_id, now, sent_ids>>

EmitSyncFrame(next_frame_id, next_packet_id, max_send_size) ==
    /\ Idle
    /\ budget.control > 0
    /\ budget' = [budget EXCEPT !.control = @ - 1]
    /\ IF SYNC_FRAME_SIZE > max_send_size
       THEN /\ emitted' = <<>>
            /\ ret' = 0
       ELSE /\ emitted' = <<[kind |-> "sync", next_frame_id |-> next_frame_id,
                            next_packet_id |-> next_packet_id,
                            len |-> SYNC_FRAME_SIZE]>>
            /\ ret' = SYNC_FRAME_SIZE
    /\ pc' = "done"
    /\ call' = [op |-> "sync", max_send_size |-> max_send_size,
                next_frame_id |-> next_frame_id,
                next_packet_id |-> next_packet_id]
    /\ result' = "Ok"
    /\ err_phase' = "none"
    /\ dfe' = NewDfe(0)
    /\ due0' = {}
    /\ popped' = <<>>
    /\ UNCHANGED <<queues, flush_id, now, sent_ids>>

\* ------------------------------------------------------------- Next
Environment ==
    \/ \E n \in 1..MaxFragments, s \in 1..MaxEncodedSize, m \in SendModes :
          EnqueuePacket(n, s, m)
    \/ \E n \in 1..MaxPackets : Acknowledge(n)
    \/ \E ids \in SUBSET {frame_queue.slots[i].frame_id : i \in 1..Len(frame_queue.slots)},
          nonce \in BOOLEAN :
          AcknowledgeGroup(ids, nonce)
    \/ EvictFrame
    \/ Tick
    \/ NextFlush
    \/ \E s \in 1..MaxAckEncodedSize : ReceiveFrame(s)

Calls ==
    \/ \E r \in 1..MaxRtt, m \in 0..MaxSendSize : EmitDataFrames(now, r, m)
    \/ \E fb \in 0..MaxBaseId, pb \in 0..MaxBaseId, m \in 0..MaxSendSize,
          min_one \in BOOLEAN :
          EmitAckFrames(fb, pb, m, min_one)
    \/ \E nf \in OptionalIds, np \in OptionalIds, m \in 0..MaxSendSize :
          EmitSyncFrame(nf, np, m)

Next == Environment \/ Calls \/ FlushStep

Spec == Init /\ [][Next]_vars

\* ---------------------------------------------- the resend timetable
\* One Resend packet of one fragment, flushed once every millisecond from
\* time 0 with a constant rtt, a budget of one frame and a frame window that
\* always has room (tests::resend_timing).
InitTimed ==
    /\ packets = <<>>
    /\ \E s \in 1..MaxEncodedSize :
          packet_sender = [queue |-> <<[nfrags |-> 1, fsize |-> s,
                                        mode |-> "Resend", flush_id |-> 0]>>,
                           base_id |-> 0, next_id |-> 0]
    /\ pending_queue = <<>>
    /\ resend_queue = <<>>
    /\ frame_queue = [base_id |-> 0, next_id |-> 0, slots |-> <<>>,
                      rate_limited |-> FALSE]
    /\ frame_ack_queue = <<>>
    /\ InitCall
    /\ flush_id = 0
    /\ now = 0
    /\ sent_ids = <<>>
    /\ budget = [pkts |-> 0, acks |-> 0, calls |-> MaxTimedNow + 1,
                 control |-> 0, events |-> 0]

\* The flush of this millisecond, with the rtt of the flushes before it.
TimedFlush ==
    \E r \in 1..MaxTimedRtt :
       /\ IF call = NoCall THEN TRUE
          ELSE call.rtt_ms = r /\ call.now_ms < now
       /\ EmitDataFrames(now, r, MAX_FRAME_SIZE)

\* The next millisecond, once this one's flush has returned; the frames sent
\* so far have left the frame window.
TimedTick ==
    /\ pc = "done"
    /\ call.now_ms = now
    /\ now < MaxTimedNow
    /\ now' = now + 1
    /\ frame_queue' = [frame_queue EXCEPT !.slots = <<>>, !.base_id = frame_queue.next_id]
    /\ UNCHANGED <<packets, packet_sender, pending_queue, resend_queue,
                   frame_ack_queue, flush_id, pc, call, dfe, emitted, ret,
                   result, err_phase, due0, popped, sent_ids, budget>>

NextTimed ==
    \/ TimedFlush \/ TimedTick
    \/ ResendEmpty \/ ResendNotDue \/ ResendPushOk
    \/ PendingRefill \/ PendingDrained \/ PendingPushOk

SpecTimed == InitTimed /\ [][NextTimed]_vars

\* The same session when the caller keeps flushing: every millisecond up to
\* MaxTimedNow gets its flush, and every flush runs to its return.
SpecTimedLive == SpecTimed /\ WF_vars(NextTimed)

\* ------------------------------------------------ late retransmissions
\* One packet of one or two fragments, flushed with a constant rtt and a
\* budget of one full frame at times the caller chooses: a flush may come
\* later than the resend it serves was scheduled for.
InitBackoff ==
    /\ packets = <<>>
    /\ \E n \in 1..MaxFragments, s \in 1..MaxEncodedSize,
          m \in {"Resend", "Unreliable"} :
          packet_sender = [queue |-> <<[nfrags |-> n, fsize |-> s,
                                        mode |-> m, flush_id |-> 0]>>,
                           base_id |-> 0, next_id |-> 0]
    /\ pending_queue = <<>>
    /\ resend_queue = <<>>
    /\ frame_queue = [base_id |-> 0, next_id |-> 0, slots |-> <<>>,
                      rate_limited |-> FALSE]
    /\ frame_ack_queue = <<>>
    /\ InitCall
    /\ flush_id = 0
    /\ now = 0
    /\ sent_ids = <<>>
    /\ budget = [pkts |-> 0, acks |-> 0, calls |-> MaxBackoffCalls,
                 control |-> 0, events |-> 0]

BackoffFlush ==
    \E r \in 1..MaxTimedRtt :
       /\ IF call = NoCall THEN TRUE ELSE call.rtt_ms = r
       /\ EmitDataFrames(now, r, MAX_FRAME_SIZE)

\* A millisecond passes between two flushes; the frames sent so far have
\* left the frame window.
BackoffTick ==
    /\ pc = "done"
    /\ now < MaxBackoffNow
    /\ now' = now + 1
    /\ frame_queue' = [frame_queue EXCEPT !.slots = <<>>, !.base_id = frame_queue.next_id]
    /\ UNCHANGED <<packets, packet_sender, pending_queue, resend_queue,
                   frame_ack_queue, flush_id, pc, call, dfe, emitted, ret,
                   result, err_phase, due0, popped, sent_ids, budget>>

NextBackoff ==
    \/ BackoffFlush \/ BackoffTick
    \/ ResendEmpty \/ ResendNotDue \/ ResendPushErr \/ ResendPushOk
    \/ PendingRefill \/ PendingDrained \/ PendingPushErr \/ PendingPushOk

SpecBackoff == InitBackoff /\ [][NextBackoff]_vars

\* ------------------------------------------------ a round trip time of zero
\* The same session when the caller's rtt estimate may be 0 ms: rtt_ms is an
\* unchecked argument of emit_data_frames.
ZeroRttFlush ==
    \E r \in 0..MaxTimedRtt :
       /\ IF call = NoCall THEN TRUE ELSE call.rtt_ms = r
       /\ EmitDataFrames(now, r, MAX_FRAME_SIZE)

NextZeroRtt ==
    \/ ZeroRttFlush \/ BackoffTick
    \/ ResendEmpty \/ ResendNotDue \/ ResendPushErr \/ ResendPushOk
    \/ PendingRefill \/ PendingDrained \/ PendingPushErr \/ PendingPushOk

SpecZeroRtt == InitBackoff /\ [][NextZeroRtt]_vars

\* ------------------------------------------------ what a call put out
RECURSIVE FlattenDatagrams(_)
FlattenDatagrams(frames) ==
    IF frames = <<>> THEN <<>>
    ELSE (IF Head(frames).kind = "data" THEN Head(frames).datagrams ELSE <<>>)
         \o FlattenDatagrams(Tail(frames))

RECURSIVE FlattenAcks(_)
FlattenAcks(frames) ==
    IF frames = <<>> THEN <<>>
    ELSE (IF Head(frames).kind = "ack" THEN Head(frames).frame_acks ELSE <<>>)
         \o FlattenAcks(Tail(frames))

RECURSIVE SumLen(_)
SumLen(frames) == IF frames = <<>> THEN 0 ELSE Head(frames).len + SumLen(Tail(frames))

RECURSIVE SumEncoded(_)
SumEncoded(dgs) ==
    IF dgs = <<>> THEN 0 ELSE EncodedSize(Head(dgs).pkt) + SumEncoded(Tail(dgs))

\* The length of a frame as its content makes it.
ContentLen(f) ==
    CASE f.kind = "data" -> DATA_FRAME_OVERHEAD + SumEncoded(f.datagrams)
      [] f.kind = "ack" -> ACK_FRAME_OVERHEAD + SumSizes(f.frame_acks)
      [] f.kind = "sync" -> SYNC_FRAME_SIZE

InProgressDatagrams ==
    IF dfe.in_progress_frame = NoFrame THEN <<>>
    ELSE dfe.in_progress_frame.datagrams

\* The datagrams packed by the call so far, in output order.
Output == FlattenDatagrams(emitted) \o InProgressDatagrams
\* The datagrams handed to the callback by the call.
Delivered == FlattenDatagrams(emitted)

DataCall == call.op = "data"
AckCall == call.op = "ack"
Returned == pc = "done"

\* ================================================================ claims

\* C1: the byte count a call of emit_data_frames, emit_ack_frames or
\* emit_sync_frame returns is the sum of the lengths of the frames it handed
\* to the callback, that sum is at most max_send_size, and bytes_remaining
\* never goes below zero.
C1_ReturnedBytes ==
    /\ dfe.bytes_remaining >= 0
    /\ Returned => /\ ret = SumLen(emitted)
                   /\ ret <= call.max_send_size
                   /\ ret >= 0

\* A flush that put out two data frames and used its whole budget.
C1_Witness ==
    /\ Returned /\ DataCall
    /\ Len(emitted) = 2
    /\ ret = call.max_send_size

\* C2: every frame handed to the callback by emit_data_frames or
\* emit_ack_frames, and the frame in progress, is longer than 0 and no longer
\* than MAX_FRAME_SIZE, its length being that of its header and its content.
C2_FrameSizes ==
    /\ \A i \in 1..Len(emitted) :
          /\ emitted[i].len = ContentLen(emitted[i])
          /\ emitted[i].len > 0
          /\ emitted[i].len <= MAX_FRAME_SIZE
    /\ dfe.in_progress_frame # NoFrame =>
          /\ dfe.in_progress_frame.size
                = DATA_FRAME_OVERHEAD + SumEncoded(dfe.in_progress_frame.datagrams)
          /\ dfe.in_progress_frame.size <= MAX_FRAME_SIZE
          /\ dfe.in_progress_frame.datagrams # <<>>

\* A datagram that the budget allowed but the frame in progress could not
\* take started a second frame.
C2_Witness ==
    /\ Returned /\ DataCall
    /\ Len(emitted) = 2
    /\ emitted[1].len < MAX_FRAME_SIZE
    /\ emitted[1].len + EncodedSize(emitted[2].datagrams[1].pkt) > MAX_FRAME_SIZE
    /\ emitted[1].len + EncodedSize(emitted[2].datagrams[1].pkt) <= call.max_send_size

\* C3: a flush packs no fragment whose acknowledgement bit is set, and a flush
\* that returns without hitting a limit has handed to the callback every
\* fragment that was due for retransmission when it started (live packet,
\* unacknowledged, resend_time <= now_ms).
C3_NoResendAfterAck ==
    /\ (DataCall /\ pc # "idle") =>
          \A i \in 1..Len(Output) :
              ~FragmentAcknowledged(Output[i].pkt, Output[i].frag)
    /\ (DataCall /\ Returned /\ result = "Ok") =>
          \A f \in due0 :
              \E i \in 1..Len(Delivered) :
                  /\ FragmentRef(Delivered[i]) = f
                  /\ Delivered[i].from = "resend"

\* After one of two fragments sent in different frames was acknowledged, a
\* flush retransmitted the other one alone.
C3_Witness ==
    /\ Returned /\ DataCall /\ result = "Ok"
    /\ Len(Delivered) = 1
    /\ Delivered[1].from = "resend"
    /\ \E p \in 1..Len(packets) :
          /\ packets[p].mode = "Resend"
          /\ packets[p].live
          /\ packets[p].acked # {}
          /\ p - 1 # Delivered[1].pkt

\* C4: a flush packs no fragment of a skipped packet (dead weak reference),
\* drops the entries of such a packet from the resend queue and from the
\* pending queue, and goes on to emit the packets behind them: with a skipped
\* entry at the head of the pending queue and a packet waiting in the packet
\* sender, the flush can take a step that changes the state.
C4_SkippedEntriesDrained ==
    /\ (DataCall /\ pc # "idle") =>
          \A i \in 1..Len(Output) : Upgrade(Output[i].pkt)
    /\ (InPending /\ ~Upgrade(PendingHead.pkt) /\ packet_sender.queue # <<>>)
          => ENABLED <<FlushStep>>_vars

\* C5: a Resend fragment first sent at 0 and never acknowledged is emitted by
\* the flushes at rtt, 3 rtt, 7 rtt, 11 rtt, 15 rtt, ... and by no other flush.
TimedDue(t, rtt) ==
    \/ t = 0
    \/ t = rtt
    \/ t >= 3 * rtt /\ (t - 3 * rtt) % (4 * rtt) = 0

C5_ResendTimetable ==
    (Returned /\ DataCall) =>
        IF TimedDue(call.now_ms, call.rtt_ms)
        THEN /\ Len(emitted) = 1
             /\ emitted[1].datagrams =
                  <<[pkt |-> 0, frag |-> 0,
                     from |-> IF call.now_ms = 0 THEN "pending" ELSE "resend"]>>
        ELSE emitted = <<>>

\* The fourth retransmission, 4 rtt after the third.
C5_Witness ==
    /\ Returned /\ DataCall
    /\ call.now_ms = 11 * call.rtt_ms
    /\ Len(emitted) = 1
    /\ resend_queue = <<[pkt |-> 0, frag |-> 0,
                         resend_time |-> 15 * call.rtt_ms, send_count |-> 2]>>

\* C6: the sequence ids of the data frames handed to the callback over the
\* session are 0, 1, 2, ... in callback order: strictly increasing from the
\* frame queue's initial base, none used twice, none left out; the frame in
\* progress holds the next id, and no frame is in progress when a call returns.
C6_FrameIds ==
    /\ sent_ids = [i \in 1..frame_queue.next_id |-> i - 1]
    /\ dfe.in_progress_frame # NoFrame =>
          dfe.in_progress_frame.frame_id = frame_queue.next_id
    /\ Returned => dfe.in_progress_frame = NoFrame
    /\ DataCall =>
          \A i \in 1..Len(emitted) :
              emitted[i].sequence_id
                 = sent_ids[Len(sent_ids) - Len(emitted) + i]

\* Two flushes, the second one continuing the ids of the first.
C6_Witness ==
    /\ Returned /\ DataCall
    /\ Len(sent_ids) >= 3
    /\ Len(emitted) >= 1
    /\ Len(emitted) < Len(sent_ids)

\* C7: in the output of one emit_data_frames call no datagram taken from the
\* pending queue comes before one taken from the resend queue, and a call
\* whose resend phase hit a limit has returned without packing anything from
\* the pending queue.
C7_ResendBeforePending ==
    /\ \A i \in 1..Len(Output), j \in 1..Len(Output) :
          (i < j /\ Output[j].from = "resend") => Output[i].from = "resend"
    /\ pc = "resend" => \A i \in 1..Len(Output) : Output[i].from = "resend"
    /\ err_phase = "resend" =>
          /\ Returned
          /\ \A i \in 1..Len(Output) : Output[i].from = "resend"

\* A flush that retransmitted one fragment and then sent a new one.
C7_Witness ==
    /\ Returned /\ DataCall
    /\ Len(Delivered) >= 2
    /\ Delivered[1].from = "resend"
    /\ Delivered[Len(Delivered)].from = "pending"

\* C8: the frame-acks carried by the ack frames of one emit_ack_frames call
\* are, in order, the entries popped from the frame-ack queue, and the entries
\* not carried are still in the queue in their order.
C8_AckFramesCarryPopped ==
    (Returned /\ AckCall) =>
        /\ FlattenAcks(emitted) = popped
        /\ popped \o frame_ack_queue = call.queue0

\* Three frame-acks went out in two ack frames.
C8_Witness ==
    /\ Returned /\ AckCall
    /\ Len(emitted) = 2
    /\ Len(popped) = 3

\* C9 as stated: emit_ack_frames with min_one hands at least one ack frame to
\* the callback, whatever max_send_size is.
C9_MinOneAlways ==
    (Returned /\ AckCall /\ call.min_one) => Len(emitted) >= 1

\* C9 amended: it does so whenever max_send_size is at least the size of an
\* ack frame that carries only the two window base ids; with an empty
\* frame-ack queue that frame is the one emitted.
C9_MinOneWhenItFits ==
    (Returned /\ AckCall /\ call.min_one
       /\ call.max_send_size >= ACK_FRAME_OVERHEAD) =>
        /\ Len(emitted) >= 1
        /\ call.queue0 = <<>> =>
              emitted = <<[kind |-> "ack",
                           frame_window_base_id |-> call.frame_window_base_id,
                           packet_window_base_id |-> call.packet_window_base_id,
                           frame_acks |-> <<>>, len |-> ACK_FRAME_OVERHEAD]>>

\* min_one with nothing to acknowledge: one frame with the window bases only.
C9_Witness ==
    /\ Returned /\ AckCall /\ call.min_one
    /\ call.queue0 = <<>>
    /\ Len(emitted) = 1
    /\ emitted[1].frame_acks = <<>>

\* C10: no fragment of a TimeSensitive packet is packed by a flush whose
\* flush_id differs from the one the packet was enqueued under.
C10_TimeSensitiveDropped ==
    (DataCall /\ pc # "idle") =>
        \A i \in 1..Len(Output) :
            packets[Output[i].pkt + 1].mode = "TimeSensitive" =>
                packets[Output[i].pkt + 1].flush_id = call.flush_id

\* C11: during emit_data_frames the frame queue's rate-limited flag is raised
\* exactly when a push ends with SizeLimited: until the call returns the flag
\* is what it was when the call started, and when it has returned the flag is
\* raised if the call ended with SizeLimited and otherwise (queues drained,
\* WindowLimited) still what it was.
C11_RateLimitedIffSizeLimited ==
    (DataCall /\ pc # "idle") =>
        /\ frame_queue.rate_limited
              = (call.rate_limited0 \/ result = "SizeLimited")
        /\ result = "SizeLimited" => Returned

\* A flush that found the flag down and ended with SizeLimited.
C11_Witness ==
    /\ Returned /\ DataCall
    /\ ~call.rate_limited0
    /\ result = "SizeLimited"
    /\ frame_queue.rate_limited

SyncCall == call.op = "sync"

\* C12: emit_sync_frame returns 0 and hands nothing to the callback when
\* SYNC_FRAME_SIZE > max_send_size; otherwise it hands the callback exactly one
\* sync frame with the given next_frame_id and next_packet_id and returns
\* SYNC_FRAME_SIZE; the step of the call changes none of the packet sender,
\* the pending, resend, frame and frame-ack queues.
C12_SyncFrame ==
    /\ [](  (Returned /\ SyncCall) =>
               IF SYNC_FRAME_SIZE > call.max_send_size
               THEN emitted = <<>> /\ ret = 0
               ELSE /\ emitted = <<[kind |-> "sync",
                                    next_frame_id |-> call.next_frame_id,
                                    next_packet_id |-> call.next_packet_id,
                                    len |-> SYNC_FRAME_SIZE]>>
                    /\ ret = SYNC_FRAME_SIZE )
    /\ [][ (call'.op = "sync" /\ budget'.control # budget.control) =>
              UNCHANGED <<packets, packet_sender, pending_queue, resend_queue,
                          frame_queue, frame_ack_queue>> ]_vars

\* A sync frame with both ids went out while a frame-ack was waiting.
C12_Witness ==
    /\ Returned /\ SyncCall
    /\ Len(emitted) = 1
    /\ call.next_frame_id.some /\ call.next_packet_id.some
    /\ frame_ack_queue # <<>>

\* C13: every call of emit_data_frames terminates, a skipped or acknowledged
\* entry at the head of the pending queue included: a call that has not
\* returned can always take a step that changes the state.
C13_FlushTerminates ==
    (DataCall /\ pc \in {"resend", "pending"}) => ENABLED <<FlushStep>>_vars

\* C14: in the pending phase, a head entry whose weak reference is dead or
\* whose fragment is acknowledged is removed from the pending queue, and the
\* resend queue is left as it is.
C14_PendingHeadDiscarded ==
    (InPending /\ ~PendingLive) =>
        ENABLED (/\ PendingSkip
                 /\ pending_queue' = Tail(pending_queue)
                 /\ resend_queue' = resend_queue)

\* q without its i-th entry.
RemoveAt(q, i) == [j \in 1..(Len(q) - 1) |-> IF j < i THEN q[j] ELSE q[j + 1]]

\* q2 is q1 with the one entry e added.
AddsOne(q1, q2, e) ==
    \E i \in 1..Len(q2) : q2[i] = e /\ RemoveAt(q2, i) = q1

\* C15: a pending entry with resend = true packed at now_ms enters the resend
\* queue as (ref, now_ms + rtt_ms, 1), one without resend enters nothing; a
\* resend entry of count k packed at now_ms is replaced by the one entry
\* (ref, now_ms + rtt_ms * 2^k, min(k + 1, MAX_SEND_COUNT)), counted from the
\* time of the flush; every resend entry has a send_count in
\* 1..MAX_SEND_COUNT and is at most 4 rtt_ms after the last flush.
C15_ReschedulingRule ==
    /\ [](\A i \in 1..Len(resend_queue) :
              /\ resend_queue[i].send_count \in 1..MAX_SEND_COUNT
              /\ resend_queue[i].resend_time <= call.now_ms + 4 * call.rtt_ms)
    /\ [][ (Len(Output') = Len(Output) + 1) =>
              IF pc = "resend"
              THEN AddsOne(Tail(resend_queue), resend_queue',
                           [pkt |-> ResendHead.pkt, frag |-> ResendHead.frag,
                            resend_time |-> call.now_ms
                               + call.rtt_ms * (2 ^ ResendHead.send_count),
                            send_count |-> Min(ResendHead.send_count + 1,
                                               MAX_SEND_COUNT)])
              ELSE IF PendingHead.resend
              THEN AddsOne(resend_queue, resend_queue',
                           [pkt |-> PendingHead.pkt, frag |-> PendingHead.frag,
                            resend_time |-> call.now_ms + call.rtt_ms,
                            send_count |-> 1])
              ELSE resend_queue' = resend_queue ]_vars

\* A flush that came one millisecond late (rtt 2, odd time) retransmitted a
\* fragment of count 2 and rescheduled it 4 rtt after its own time.
C15_Witness ==
    /\ Returned /\ DataCall
    /\ call.rtt_ms = 2 /\ call.now_ms % 2 = 1
    /\ \E i \in 1..Len(Delivered) : Delivered[i].from = "resend"
    /\ \E i \in 1..Len(resend_queue) :
          /\ resend_queue[i].send_count = MAX_SEND_COUNT
          /\ resend_queue[i].resend_time = call.now_ms + 4 * call.rtt_ms

\* The entry is one a flush at now_ms would try to pack.
Attemptable(e) == Upgrade(e.pkt) /\ ~FragmentAcknowledged(e.pkt, e.frag)

\* When a call has returned on a failed push, the entry it failed on is at
\* the head of its queue, still to be packed.
FailedEntryAtHead ==
    /\ (Returned /\ DataCall /\ err_phase = "resend") =>
          /\ resend_queue # <<>>
          /\ Attemptable(ResendHead)
          /\ ResendHead.resend_time <= call.now_ms
    /\ (Returned /\ DataCall /\ err_phase = "pending") =>
          /\ pending_queue # <<>>
          /\ Attemptable(PendingHead)

\* C16 as stated: the entry a push failed on stays at the head of its queue
\* and is the first entry the next flush attempts; so a flush that finds an
\* entry left in the pending queue attempts no resend entry before it.
C16_FailedEntryFirst ==
    /\ FailedEntryAtHead
    /\ (DataCall /\ ResendDue /\ Output = <<>>) =>
          ~(pending_queue # <<>> /\ Attemptable(PendingHead))

\* C16 amended: the step on which a push fails changes neither the pending
\* nor the resend queue, so the entry stays at the head of its queue as it
\* was with the entries behind it; it is the first entry of its queue that
\* the next flush attempts, a pending entry after the resend entries that are
\* due: a flush attempts the pending head first only when no resend entry is
\* due.
C16_FailedEntryStays ==
    /\ [](FailedEntryAtHead)
    /\ []((DataCall /\ PendingLive /\ Output = <<>>) =>
             \A i \in 1..Len(resend_queue) :
                 ~(Attemptable(resend_queue[i])
                     /\ resend_queue[i].resend_time <= call.now_ms))
    /\ [][ (pc # "done" /\ pc' = "done" /\ result' \in {"SizeLimited", "WindowLimited"})
              => UNCHANGED <<pending_queue, resend_queue>> ]_vars

\* A flush failed on the first fragment of a packet of two while a resend
\* entry was queued.
C16_Witness ==
    /\ Returned /\ DataCall
    /\ err_phase = "pending"
    /\ Len(pending_queue) = 2
    /\ resend_queue # <<>>

\* q1 is a prefix of q2.
IsPrefix(q1, q2) == Len(q1) <= Len(q2) /\ SubSeq(q2, 1, Len(q1)) = q1

InFlush == pc \in {"resend", "pending"}

\* C17: when emit_data_frames has returned, on the normal path and on both
\* early returns, no data frame is in progress; a datagram once accepted stays
\* in the call's output, and every entry that a step of the call pops from
\* the pending queue or reschedules in the resend queue is accepted on that
\* step: so every accepted fragment is in a frame handed to the callback in
\* the same call.
C17_NoAcceptedDatagramLost ==
    /\ []((Returned /\ DataCall) =>
             /\ dfe.in_progress_frame = NoFrame
             /\ Output = Delivered)
    /\ [][ InFlush => IsPrefix(Output, Output') ]_vars
    /\ [][ (InPending /\ pending_queue' # pending_queue) =>
              /\ pending_queue' = Tail(pending_queue)
              /\ Output' = Append(Output, PendingDatagram) ]_vars
    /\ [][ (InResend /\ Attemptable(ResendHead) /\ resend_queue' # resend_queue) =>
              Output' = Append(Output, ResendDatagram) ]_vars

\* A flush that ended with SizeLimited after a push had flushed a frame with
\* budget to spare.
C17_Witness ==
    /\ Returned /\ DataCall
    /\ result = "SizeLimited"
    /\ Len(Delivered) >= 2
    /\ ret < call.max_send_size

\* The datagram was pushed with persistent = true: it came from the resend
\* queue, or from a pending entry whose resend flag is set (a Resend packet).
Persistent(dg) == dg.from = "resend" \/ packets[dg.pkt + 1].mode = "Resend"

RECURSIVE PersistentRefs(_)
PersistentRefs(dgs) ==
    IF dgs = <<>> THEN <<>>
    ELSE IF Persistent(Head(dgs))
         THEN <<FragmentRef(Head(dgs))>> \o PersistentRefs(Tail(dgs))
         ELSE PersistentRefs(Tail(dgs))

\* The frame queue slot of the i-th frame handed to the callback in this call.
SlotOf(i) == frame_queue.slots[Len(frame_queue.slots) - Len(emitted) + i]

\* C18: every data frame handed to the callback is registered with the frame
\* queue once, under the id written in the frame, with the frame's length,
\* the flush's now_ms, the frame's nonce and the references of exactly its
\* persistent datagrams in packing order; a step of a flush registers as many
\* frames as it hands to the callback.
C18_FramesRegistered ==
    /\ []((DataCall /\ pc # "idle") =>
             /\ Len(frame_queue.slots) >= Len(emitted)
             /\ \A i \in 1..Len(emitted) :
                   SlotOf(i) = [frame_id |-> emitted[i].sequence_id,
                                size |-> emitted[i].len,
                                sent |-> call.now_ms,
                                refs |-> PersistentRefs(emitted[i].datagrams),
                                nonce |-> emitted[i].nonce,
                                acked |-> FALSE])
    /\ [][ InFlush =>
              /\ Len(frame_queue'.slots) - Len(frame_queue.slots)
                    = Len(emitted') - Len(emitted)
              /\ frame_queue'.next_id - frame_queue.next_id
                    = Len(emitted') - Len(emitted)
              /\ IsPrefix(frame_queue.slots, frame_queue'.slots) ]_vars

\* A frame went out with a datagram of an Unreliable packet and one of a
\* Resend packet; its slot holds the reference of the second alone.
C18_Witness ==
    /\ Returned /\ DataCall
    /\ Len(emitted) >= 1
    /\ Len(emitted[1].datagrams) = 2
    /\ Len(SlotOf(1).refs) = 1

\* C19: a data frame is open only while the frame queue can admit a frame, so
\* it can still be registered when it is flushed; while the frame window is
\* full a step of a flush hands nothing to the callback, accepts no datagram,
\* registers no frame and removes no entry of a live, unacknowledged fragment
\* from the pending or the resend queue: a call that starts with the window
\* full emits nothing.
C19_WindowRespected ==
    /\ [](dfe.in_progress_frame # NoFrame => CanPush(frame_queue))
    /\ []((frame_queue.next_id - frame_queue.base_id) \in 0..MAX_FRAME_WINDOW_SIZE)
    /\ [][ (InFlush /\ ~CanPush(frame_queue)) =>
              /\ emitted' = emitted
              /\ Output' = Output
              /\ frame_queue'.slots = frame_queue.slots
              /\ frame_queue'.next_id = frame_queue.next_id
              /\ pending_queue' # pending_queue => pending_queue = <<>>
              /\ resend_queue' # resend_queue => ~Attemptable(ResendHead) ]_vars

\* A call that started with the frame window full returned WindowLimited
\* without a frame.
C19_Witness ==
    /\ Returned /\ DataCall
    /\ result = "WindowLimited"
    /\ emitted = <<>>
    /\ frame_queue.next_id - frame_queue.base_id = MAX_FRAME_WINDOW_SIZE

\* (p1, f1) comes before (p2, f2): an earlier packet, or the same packet and
\* a lower fragment id.
Before(d1, d2) == d1.pkt < d2.pkt \/ (d1.pkt = d2.pkt /\ d1.frag < d2.frag)

\* The fragment that is the next to be sent for the first time, when the
\* pending queue holds one: the fragments before it of the packet admitted
\* last have been sent, those from it on are waiting in ascending order.
NextFirst ==
    [pkt |-> Len(packets) - 1,
     frag |-> packets[Len(packets)].nfrags - Len(pending_queue),
     from |-> "pending"]

\* C20: first transmissions follow the order in which the packets were
\* admitted and, within a packet, ascending fragment ids, over any sequence of
\* flushes: the pending queue always holds the remaining fragments of the
\* packet admitted last, in ascending order up to last_fragment_id; a packet
\* is admitted only when the pending queue is empty; a step that sends a
\* fragment for the first time sends the first of those remaining; within a
\* call the first transmissions are in that order.
C20_FirstTransmissionsOrdered ==
    /\ [](pending_queue # <<>> =>
             /\ Len(pending_queue) <= packets[Len(packets)].nfrags
             /\ \A i \in 1..Len(pending_queue) :
                   /\ pending_queue[i].pkt = Len(packets) - 1
                   /\ pending_queue[i].frag = NextFirst.frag + i - 1)
    /\ []((DataCall /\ pc # "idle") =>
             \A i \in 1..Len(Output), j \in 1..Len(Output) :
                 (i < j /\ Output[i].from = "pending" /\ Output[j].from = "pending")
                     => Before(Output[i], Output[j]))
    /\ [][ Len(packets') # Len(packets) =>
              /\ pending_queue = <<>>
              /\ Len(packets') = Len(packets) + 1 ]_vars
    /\ [][ (pc = "pending" /\ Len(Output') = Len(Output) + 1) =>
              /\ Output'[Len(Output')] = NextFirst
              /\ pending_queue' = Tail(pending_queue) ]_vars

\* A flush took up a packet at its second fragment, the first having gone out
\* in an earlier flush, and went on to the next packet.
C20_Witness ==
    /\ Returned /\ DataCall
    /\ Len(Delivered) >= 2
    /\ Delivered[1] = [pkt |-> 0, frag |-> 1, from |-> "pending"]
    /\ Delivered[2] = [pkt |-> 1, frag |-> 0, from |-> "pending"]

\* The fragment was admitted with resend = false.
FireAndForget(r) == packets[r.pkt + 1].mode # "Resend"

\* The fragment references held by the frame queue and by the frame in
\* progress.
HeldRefs ==
    UNION {{frame_queue.slots[i].refs[k] : k \in 1..Len(frame_queue.slots[i].refs)} :
              i \in 1..Len(frame_queue.slots)}
      \cup (IF dfe.in_progress_frame = NoFrame THEN {}
            ELSE {dfe.in_progress_frame.fragment_refs[k] :
                     k \in 1..Len(dfe.in_progress_frame.fragment_refs)})

\* C21: a fragment admitted with resend = false is emitted at most once over
\* the session: no resend entry and no fragment reference of the frame queue
\* is ever one of such a fragment; in a call's output it comes from the
\* pending queue, once, and is then in neither queue; the step that packs it
\* pops it and leaves the resend queue as it is; and the pending queue only
\* ever receives the fragments of a newly admitted packet.
C21_FireAndForgetOnce ==
    /\ [](\A i \in 1..Len(resend_queue) : ~FireAndForget(resend_queue[i]))
    /\ [](\A r \in HeldRefs : ~FireAndForget(r))
    /\ []((DataCall /\ pc # "idle") =>
             \A i \in 1..Len(Output) :
                 FireAndForget(Output[i]) =>
                    /\ Output[i].from = "pending"
                    /\ \A j \in 1..Len(Output) :
                          FragmentRef(Output[j]) = FragmentRef(Output[i]) => j = i
                    /\ \A k \in 1..Len(pending_queue) :
                          FragmentRef(pending_queue[k]) # FragmentRef(Output[i]))
    /\ [][ (InPending /\ Len(Output') = Len(Output) + 1
               /\ FireAndForget(PendingHead)) =>
              /\ pending_queue' = Tail(pending_queue)
              /\ resend_queue' = resend_queue ]_vars
    /\ [][ \A k \in 1..Len(pending_queue') :
              \/ \E j \in 1..Len(pending_queue) : pending_queue[j] = pending_queue'[k]
              \/ pending_queue'[k].pkt = Len(packets) ]_vars

\* An Unreliable fragment and a Resend fragment went out in one flush: only
\* the second left a resend entry and a fragment reference.
C21_Witness ==
    /\ Returned /\ DataCall
    /\ \E i \in 1..Len(Delivered) : packets[Delivered[i].pkt + 1].mode = "Unreliable"
    /\ \E i \in 1..Len(Delivered) : packets[Delivered[i].pkt + 1].mode = "Resend"
    /\ pending_queue = <<>>
    /\ Len(resend_queue) = 1
    /\ Cardinality(HeldRefs) = 1

\* The fragment went out in the call that has just returned.
TimedEmitted(t) ==
    /\ Returned /\ DataCall
    /\ call.now_ms = t
    /\ \E i \in 1..Len(Delivered) : Delivered[i].pkt = 0 /\ Delivered[i].frag = 0

\* C22: a Resend fragment that is never acknowledged and never skipped, and
\* is flushed every millisecond with budget and window to spare, keeps being
\* retransmitted: once it has been emitted it always has its resend entry,
\* every resend the entry is scheduled for is eventually emitted by the flush
\* of that millisecond, and from the second retransmission on the next one is
\* scheduled 4 rtt later.
C22_RetransmissionLive ==
    /\ []((Returned /\ DataCall) =>
             /\ Len(resend_queue) = 1
             /\ resend_queue[1].pkt = 0 /\ resend_queue[1].frag = 0
             /\ resend_queue[1].resend_time > call.now_ms)
    /\ \A t \in 0..MaxTimedNow :
          (resend_queue # <<>> /\ resend_queue[1].resend_time = t) ~> TimedEmitted(t)
    /\ []((Returned /\ DataCall /\ emitted # <<>> /\ call.now_ms >= 3 * call.rtt_ms) =>
             resend_queue[1].resend_time = call.now_ms + 4 * call.rtt_ms)

\* The third retransmission, 4 rtt after the second, with the fourth scheduled.
C22_Witness ==
    /\ TimedEmitted(7 * call.rtt_ms)
    /\ Delivered[1].from = "resend"
    /\ resend_queue = <<[pkt |-> 0, frag |-> 0,
                         resend_time |-> 11 * call.rtt_ms, send_count |-> 2]>>

\* The indices of the entries of queue q for fragment f of packet p.
EntriesOf(q, p, f) == {i \in 1..Len(q) : q[i].pkt = p /\ q[i].frag = f}

\* Fragment f of packet p is a Resend fragment that has left the pending
\* queue, is not acknowledged, and whose packet is live.
AwaitingAck(p, f) ==
    /\ p \in 0..(Len(packets) - 1)
    /\ f \in 0..LastFragmentId(packets[p + 1])
    /\ packets[p + 1].mode = "Resend"
    /\ Attemptable([pkt |-> p, frag |-> f])
    /\ EntriesOf(pending_queue, p, f) = {}

AllFragments == (0..(MaxPackets - 1)) \X (0..(MaxFragments - 1))

\* C23: every Resend fragment that has been emitted, is not acknowledged and
\* whose packet is live has exactly one entry in the resend queue; and a step
\* leaves that entry as it is unless it emits the fragment and replaces the
\* entry by the rescheduled one.
C23_ResendQueueConservation ==
    /\ [](\A pf \in AllFragments :
             AwaitingAck(pf[1], pf[2]) =>
                Cardinality(EntriesOf(resend_queue, pf[1], pf[2])) = 1)
    /\ [][ \A pf \in AllFragments :
              (AwaitingAck(pf[1], pf[2]) /\ AwaitingAck(pf[1], pf[2])') =>
                 LET e1 == resend_queue[CHOOSE i \in EntriesOf(resend_queue, pf[1], pf[2]) : TRUE]
                     e2 == resend_queue'[CHOOSE i \in EntriesOf(resend_queue', pf[1], pf[2]) : TRUE]
                 IN  \/ e2 = e1
                     \/ /\ Len(Output') = Len(Output) + 1
                        /\ Output'[Len(Output')] =
                              [pkt |-> pf[1], frag |-> pf[2], from |-> "resend"]
                        /\ e2 = Rescheduled(e1, call.now_ms, call.rtt_ms) ]_vars

\* Of a packet of two fragments one is acknowledged and the other has been
\* retransmitted: the resend queue holds the entry of the second.
C23_Witness ==
    /\ Returned /\ DataCall
    /\ \E p \in 0..(Len(packets) - 1) :
          /\ packets[p + 1].nfrags = 2
          /\ \E f \in 0..1 :
                /\ FragmentAcknowledged(p, 1 - f)
                /\ AwaitingAck(p, f)
                /\ \E i \in EntriesOf(resend_queue, p, f) :
                      resend_queue[i].send_count = 2

\* C24: within one call of emit_data_frames no fragment is placed into the
\* output more than once, whatever rtt_ms is, 0 included.
C24_AtMostOncePerFlush ==
    (DataCall /\ pc # "idle") =>
        \A i \in 1..Len(Output) : \A j \in 1..Len(Output) :
            FragmentRef(Output[i]) = FragmentRef(Output[j]) => i = j

====
